---- MODULE Spec2Model ----
(***************************************************************************)
(* A model of the CloudFormation template linter of this repository:       *)
(*   scripts/cfn_lint_runner.py   the build-pipeline runner (main)         *)
(*   cfn_linter/validation.py     CFNValidator                             *)
(*   cfn_linter/venv_manager.py   VirtualEnvManager                        *)
(*   cfn_linter/environment.py    EnvironmentDetector, EnvironmentManager  *)
(* The file system, the subprocesses (python -m venv, pip, cfn-lint) and   *)
(* the process environment are the outside world: every answer they can    *)
(* give is drawn with \E in the action that asks.                          *)
(***************************************************************************)
EXTENDS Integers, Sequences, FiniteSets, TLC

VARIABLES
    mode,            \* "runner": cfn_lint_runner.main; "direct": a caller of validate_all_templates
    args,            \* the parsed command line of the runner
    environ,         \* what the environment detector looks at
    rootExists,      \* project_root.exists()
    fs,              \* the virtual environment on disk
    pc,              \* position in main / validate_all_templates / validate_template
    exitCode,        \* main's return value, NoExit until it returns
    out,             \* kinds of text the last step wrote to standard output
    err,             \* kinds of text the last step wrote to standard error
    stages,          \* the components entered so far, in order of first entry
    venvOps,         \* VirtualEnvManager operations called so far
    validatorCreated,\* a CFNValidator has been constructed
    template_paths,  \* the list handed to validate_all_templates
    idx,             \* enumerate() position: template_paths[idx] is in hand
    cur,             \* the validate_template call in progress
    running,         \* cfn-lint validation subprocesses alive now
    lintRuns,        \* cfn-lint validation subprocesses started so far
    results,         \* validate_all_templates: results
    counts,          \* validate_all_templates: valid_count, failed_count, total_errors, total_warnings
    raisedFor,       \* indexes whose validate_template call raised
    summary,         \* the ValidationSummary returned, NoSummary before
    locals,          \* main: success, and error after discovery and after validation
    call             \* a call of one of the other functions of the repository, made on its own

vars == <<mode, args, environ, rootExists, fs, pc, exitCode, out, err, stages,
          venvOps, validatorCreated, template_paths, idx, cur, running, lintRuns,
          results, counts, raisedFor, summary, locals, call>>

\* the state of the linter run, which a call of another function leaves alone
linterVars == <<mode, args, environ, rootExists, fs, pc, exitCode, out, err, stages,
                venvOps, validatorCreated, template_paths, idx, cur, running, lintRuns,
                results, counts, raisedFor, summary, locals>>

-----------------------------------------------------------------------------
(* Bounds *)

MaxTemplates == 2

-----------------------------------------------------------------------------
(* Small helpers *)

\* main's return value: none yet, or the exit code
NoExit == <<>>
Exit(code) == <<code>>
NoSummary == [none |-> TRUE]
NoCall == [stage |-> "idle"]
NoLevel == "<absent>"

\* the value of an expression, evaluated once
Only(S) == CHOOSE x \in S : TRUE

SeqsUpTo(S, n) == UNION {[1..k -> S] : k \in 0..n}

\* the components entered so far, each named once, in order of first entry
Enter(st, name) == IF \E i \in 1..Len(st) : st[i] = name THEN st ELSE Append(st, name)

RECURSIVE EnterAll(_, _)
EnterAll(st, names) ==
    IF names = <<>> THEN st ELSE EnterAll(Enter(st, Head(names)), Tail(names))

-----------------------------------------------------------------------------
(* cfn_linter/environment.py *)

ScriptNames == {"cfn_lint_runner.py", "build.py", "pipeline.py", "pytest", "python"}

\* pytest: a pytest frame, a pytest environment variable or the pytest module;
\* ci_var: one of the listed CI variables is set; codebuild_src: CODEBUILD_SRC_DIR
\* is non-empty; script: basename of sys.argv[0]
Environs == [pytest : BOOLEAN, ci_var : BOOLEAN, codebuild_src : BOOLEAN, script : ScriptNames]

is_pytest_context(e) == e.pytest

is_build_pipeline_context(e) ==
    \/ e.ci_var
    \/ e.codebuild_src
    \/ e.script \in {"cfn_lint_runner.py", "build.py", "pipeline.py"}

is_local_context(e) == ~is_build_pipeline_context(e) /\ ~is_pytest_context(e)

\* mutant: the build pipeline is looked for before pytest
detect_execution_context_PipelineFirst(e) ==
    IF is_build_pipeline_context(e) THEN "BUILD_PIPELINE"
    ELSE IF is_pytest_context(e) THEN "PYTEST"
    ELSE IF is_local_context(e) THEN "LOCAL"
    ELSE "UNKNOWN"

detect_execution_context(e) ==
    IF is_pytest_context(e) THEN "PYTEST"
    ELSE IF is_build_pipeline_context(e) THEN "BUILD_PIPELINE"
    ELSE IF is_local_context(e) THEN "LOCAL"
    ELSE "UNKNOWN"

is_ci_environment(e) == is_build_pipeline_context(e)

\* mutant: the default configuration whatever the context
get_validation_config_Default(context, is_ci) ==
    [timeout_seconds |-> 60, fail_on_warnings |-> FALSE, verbose_output |-> is_ci,
     use_venv |-> TRUE, parallel_execution |-> FALSE, fail_fast |-> is_ci]

get_validation_config(context, is_ci) ==
    LET base == [timeout_seconds |-> 60, fail_on_warnings |-> FALSE,
                 verbose_output |-> FALSE, use_venv |-> TRUE,
                 parallel_execution |-> FALSE, fail_fast |-> FALSE]
        byContext ==
            CASE context = "BUILD_PIPELINE" ->
                     [base EXCEPT !.timeout_seconds = 120, !.fail_on_warnings = FALSE,
                                  !.verbose_output = TRUE, !.parallel_execution = FALSE]
              [] context = "PYTEST" ->
                     [base EXCEPT !.timeout_seconds = 30, !.fail_on_warnings = FALSE,
                                  !.verbose_output = FALSE, !.parallel_execution = FALSE]
              [] context = "LOCAL" ->
                     [base EXCEPT !.timeout_seconds = 60, !.fail_on_warnings = FALSE,
                                  !.verbose_output = TRUE, !.parallel_execution = FALSE]
              [] OTHER -> base
    IN  IF is_ci THEN [byContext EXCEPT !.verbose_output = TRUE, !.fail_fast = TRUE]
        ELSE byContext

get_environment_config(e) ==
    [context |-> detect_execution_context(e),
     is_ci |-> is_ci_environment(e),
     validation_config |-> get_validation_config(detect_execution_context(e),
                                                 is_ci_environment(e))]

get_validation_timeout(e) == get_environment_config(e).validation_config.timeout_seconds

\* issues is empty exactly when the interpreter answers --version and the
\* virtual environment's python exists (the project root is known to exist here)
verify_environment_consistency(f, pythonVersionOk) == f.python /\ pythonVersionOk

-----------------------------------------------------------------------------
(* cfn_linter/venv_manager.py *)

\* python: .venv/bin/python is a regular file; lint: .venv/bin/cfn-lint exists
FileSystems == [python : BOOLEAN, lint : BOOLEAN]

\* python -m venv: exit 0 / exit 0 without a python / non-zero exit / non-zero
\* exit after the interpreter was already put in place / the run itself raises
CreateOutcomes == {"ok", "ok_no_python", "failed", "failed_partial", "exception"}
\* pip install: exit 0 with cfn-lint installed / exit 0 without it (a
\* requirements.txt that does not list it) / non-zero exit / the run raises
PipOutcomes == {"ok", "ok_no_lint", "failed", "exception"}
\* cfn-lint --version
VersionOutcomes == {"zero", "nonzero", "exception"}

Oracles == [create : CreateOutcomes, pip : PipOutcomes, version : VersionOutcomes]

is_valid_venv(f) == f.python

ensure_venv_exists(f, create) ==
    IF is_valid_venv(f)
    THEN [ok |-> TRUE, fs |-> f, spawned |-> FALSE, out |-> {}]
    ELSE CASE create = "ok" ->
                  [ok |-> is_valid_venv([f EXCEPT !.python = TRUE]),
                   fs |-> [f EXCEPT !.python = TRUE], spawned |-> TRUE, out |-> {}]
           [] create = "ok_no_python" ->
                  [ok |-> is_valid_venv(f), fs |-> f, spawned |-> TRUE, out |-> {}]
           [] create = "failed" ->
                  [ok |-> FALSE, fs |-> f, spawned |-> TRUE, out |-> {"venv_error"}]
           [] create = "failed_partial" ->
                  [ok |-> FALSE, fs |-> [f EXCEPT !.python = TRUE], spawned |-> TRUE,
                   out |-> {"venv_error"}]
           [] OTHER ->
                  [ok |-> FALSE, fs |-> f, spawned |-> FALSE, out |-> {"venv_error"}]

install_dependencies(f, create, pip) ==
    Only({ IF ~e.ok
           THEN [ok |-> FALSE, fs |-> e.fs, out |-> e.out,
                 ops |-> {"install_dependencies", "ensure_venv_exists"}]
           ELSE CASE pip = "ok" ->
                         [ok |-> TRUE, fs |-> [e.fs EXCEPT !.lint = TRUE], out |-> e.out,
                          ops |-> {"install_dependencies", "ensure_venv_exists"}]
                  [] pip = "ok_no_lint" ->
                         [ok |-> TRUE, fs |-> e.fs, out |-> e.out,
                          ops |-> {"install_dependencies", "ensure_venv_exists"}]
                  [] OTHER ->
                         [ok |-> FALSE, fs |-> e.fs, out |-> e.out \cup {"venv_error"},
                          ops |-> {"install_dependencies", "ensure_venv_exists"}]
           : e \in {ensure_venv_exists(f, create)} })

\* mutant: the path is returned after an installation without looking again
get_cfn_lint_path_Unchecked(f, create, pip) ==
    Only({ IF ~e.ok
           THEN [raised |-> TRUE, fs |-> e.fs, out |-> e.out,
                 ops |-> {"get_cfn_lint_path", "ensure_venv_exists"}]
           ELSE IF e.fs.lint
           THEN [raised |-> FALSE, fs |-> e.fs, out |-> e.out,
                 ops |-> {"get_cfn_lint_path", "ensure_venv_exists"}]
           ELSE Only({ [raised |-> ~i.ok, fs |-> i.fs, out |-> e.out \cup i.out,
                        ops |-> {"get_cfn_lint_path", "ensure_venv_exists"} \cup i.ops]
                       : i \in {install_dependencies(e.fs, create, pip)} })
           : e \in {ensure_venv_exists(f, create)} })

\* raised: RuntimeError; otherwise the path .venv/bin/cfn-lint is returned
get_cfn_lint_path(f, create, pip) ==
    Only({ IF ~e.ok
           THEN [raised |-> TRUE, fs |-> e.fs, out |-> e.out,
                 ops |-> {"get_cfn_lint_path", "ensure_venv_exists"}]
           ELSE IF e.fs.lint
           THEN [raised |-> FALSE, fs |-> e.fs, out |-> e.out,
                 ops |-> {"get_cfn_lint_path", "ensure_venv_exists"}]
           ELSE Only({ [raised |-> ~i.ok \/ ~i.fs.lint, fs |-> i.fs, out |-> e.out \cup i.out,
                        ops |-> {"get_cfn_lint_path", "ensure_venv_exists"} \cup i.ops]
                       : i \in {install_dependencies(e.fs, create, pip)} })
           : e \in {ensure_venv_exists(f, create)} })

is_cfn_lint_available(f, create, pip, version) ==
    Only({ [ok |-> ~p.raised /\ version = "zero", fs |-> p.fs, out |-> p.out,
            ops |-> {"is_cfn_lint_available"} \cup p.ops]
           : p \in {get_cfn_lint_path(f, create, pip)} })

-----------------------------------------------------------------------------
(* cfn_linter/validation.py: validate_template *)

\* A list element: name tells the elements apart; is_path is FALSE for an
\* element that is no pathlib.Path (a str, None), which has no exists().
PathValues(n) == [name : {n}, is_path : BOOLEAN]

\* What the file system answers about a template when validate_template asks
FileAttrs == [exists : BOOLEAN, is_file : BOOLEAN, readable : BOOLEAN,
              stat : {"zero", "nonzero", "oserror"},
              content : {"text", "blank", "undecodable", "ioerror"}]

\* the answers that can come together: nothing can be read of a missing file, a
\* directory or an unreadable file, and a file of size 0 holds no text
FileSamples ==
    {f \in FileAttrs :
        /\ ~f.exists => ~f.is_file /\ ~f.readable /\ f.stat = "oserror"
        /\ (~f.is_file \/ ~f.readable) => f.content = "ioerror"
        /\ f.stat = "zero" => f.content \in {"blank", "ioerror"}}

ValidationError(rule, sev) == [rule_id |-> rule, severity |-> sev]

ValidationResult(p, valid, errs, warns) ==
    [template_path |-> p, is_valid |-> valid, errors |-> errs, warnings |-> warns]

SingleError(p, rule) == ValidationResult(p, FALSE, <<ValidationError(rule, "error")>>, <<>>)

\* mutant: the size is looked at before the permissions
PreCheck_SizeFirst(p, f) ==
    IF ~p.is_path THEN "raise"
    ELSE IF ~f.exists THEN "FILE_NOT_FOUND"
    ELSE IF ~f.is_file THEN "NOT_A_FILE"
    ELSE IF f.stat = "zero" THEN "EMPTY_FILE"
    ELSE IF ~f.readable THEN "PERMISSION_DENIED"
    ELSE IF f.stat = "oserror" THEN "FILESYSTEM_ERROR"
    ELSE IF f.content = "blank" THEN "EMPTY_CONTENT"
    ELSE IF f.content = "undecodable" THEN "ENCODING_ERROR"
    ELSE IF f.content = "ioerror" THEN "FILE_READ_ERROR"
    ELSE "pass"

\* The pre-validation checks, in the order of the code. "raise": the call
\* template_path.exists() fails with AttributeError, which `except OSError`
\* does not catch; "pass": go on to cfn-lint; otherwise the rule_id returned.
PreCheck(p, f) ==
    IF ~p.is_path THEN "raise"
    ELSE IF ~f.exists THEN "FILE_NOT_FOUND"
    ELSE IF ~f.is_file THEN "NOT_A_FILE"
    ELSE IF ~f.readable THEN "PERMISSION_DENIED"
    ELSE IF f.stat = "oserror" THEN "FILESYSTEM_ERROR"
    ELSE IF f.stat = "zero" THEN "EMPTY_FILE"
    ELSE IF f.content = "blank" THEN "EMPTY_CONTENT"
    ELSE IF f.content = "undecodable" THEN "ENCODING_ERROR"
    ELSE IF f.content = "ioerror" THEN "FILE_READ_ERROR"
    ELSE "pass"

\* cfn-lint's JSON output. An item is an object with (or without) a Rule.Id and
\* a Level, or something that is no object; a Level may be no string.
NoRule == "<absent>"
NonString == "<non-string>"
LintItem(rule, level) == [shape |-> "object", Rule |-> rule, Level |-> level]
NotAnObject == [shape |-> "other", Rule |-> NoRule, Level |-> NoLevel]

ItemSamples ==
    {LintItem("E3001", "Error"), LintItem("W2001", "Warning"), LintItem("W2001", "warning"),
     LintItem("I1002", "Informational"), LintItem(NoRule, NoLevel),
     LintItem("E3001", NonString), NotAnObject}

\* stdout of the cfn-lint run: empty, text that is no JSON, a JSON list, a JSON
\* value that iterates over nothing ({} or ""), one that iterates over
\* non-objects (a non-empty object or string), one that does not iterate
Stdout(kind, items) == [kind |-> kind, items |-> items]

StdoutSamples ==
    {Stdout("empty", <<>>), Stdout("text", <<>>), Stdout("json_empty_iterable", <<>>),
     Stdout("json_iterable", <<NotAnObject>>), Stdout("json_scalar", <<>>)}
    \cup {Stdout("json_list", l) : l \in SeqsUpTo(ItemSamples, 1)}
    \cup {Stdout("json_list", l) :
            l \in {<<LintItem("E3001", "Error"), LintItem("W2001", "Warning")>>,
                   <<LintItem("W2001", "warning"), LintItem("E3001", "Error")>>,
                   <<LintItem("W2001", "Warning"), LintItem("W2001", "warning")>>,
                   <<LintItem("W2001", "warning"), NotAnObject>>}}

\* subprocess.run: it raises before the process exists (OSError: any other
\* error of the exec), or the process runs and is killed at the timeout, or it exits
LaunchOutcomes == {"started", "FileNotFoundError", "PermissionError", "OSError"}

Completions ==
    {[outcome |-> "timeout", returncode |-> 0, stdout |-> Stdout("empty", <<>>), stderr |-> ""]}
    \cup [outcome : {"exit"}, returncode : {0, 2}, stdout : StdoutSamples,
          stderr : {"", "E0000 Template needs to be an object."}]

\* mutant: the Level is compared as written
Lower_AsWritten(s) == s

\* str.lower() on the Level values
Lower(s) ==
    CASE s = "Error" -> "error"
      [] s = "Warning" -> "warning"
      [] s = "Informational" -> "informational"
      [] OTHER -> s

\* one pass of the `for lint_error in lint_results` loop
RECURSIVE ParseItems(_, _, _)
ParseItems(items, errs, warns) ==
    IF items = <<>> THEN [raised |-> FALSE, errors |-> errs, warnings |-> warns]
    ELSE LET it == Head(items) IN
         IF it.shape # "object" \/ it.Level = NonString
         THEN [raised |-> TRUE, errors |-> errs, warnings |-> warns]
         ELSE LET ve == ValidationError(IF it.Rule = NoRule THEN "Unknown" ELSE it.Rule,
                                        IF it.Level = NoLevel THEN "error" ELSE Lower(it.Level))
              IN  IF ve.severity = "warning"
                  THEN ParseItems(Tail(items), errs, Append(warns, ve))
                  ELSE ParseItems(Tail(items), Append(errs, ve), warns)

\* `if result.stdout:` ... json.loads ... the loop
ParseOutput(stdout) ==
    CASE stdout.kind = "empty" -> [raised |-> FALSE, errors |-> <<>>, warnings |-> <<>>]
      [] stdout.kind = "text" ->
             [raised |-> FALSE, errors |-> <<ValidationError("JSON_PARSE_ERROR", "error")>>,
              warnings |-> <<>>]
      [] stdout.kind = "json_scalar" -> [raised |-> TRUE, errors |-> <<>>, warnings |-> <<>>]
      [] OTHER -> ParseItems(stdout.items, <<>>, <<>>)

\* How a call ends: it returns a ValidationResult or an exception leaves it
Returned(r) == [raised |-> FALSE, result |-> r]
Raised(p) == [raised |-> TRUE, result |-> ValidationResult(p, FALSE, <<>>, <<>>)]

\* mutant: the cfn-lint step has no `except Exception`
CatchAll_Absent(p, o) == o

\* lines 372-387: `except Exception` around the cfn-lint step
CatchAll(p, o) == IF o.raised THEN Returned(SingleError(p, "EXECUTION_ERROR")) ELSE o

\* lines 294-370, inside the try: the subprocess completed or timed out
CompletedOutcome(p, c) ==
    IF c.outcome = "timeout" THEN Returned(SingleError(p, "TIMEOUT_ERROR"))
    ELSE Only({
        IF parsed.raised THEN Raised(p)
        ELSE IF c.returncode # 0 /\ c.stdout.kind = "empty" /\ c.stderr # ""
        THEN Returned(ValidationResult(p, FALSE,
                          Append(parsed.errors, ValidationError("CFN_LINT_ERROR", "error")),
                          parsed.warnings))
        ELSE Returned(ValidationResult(p, Len(parsed.errors) = 0, parsed.errors,
                                       parsed.warnings))
        : parsed \in {ParseOutput(c.stdout)} })

\* lines 253-292: subprocess.run could not start cfn-lint
LaunchFailure(p, launch) ==
    CASE launch = "FileNotFoundError" -> Returned(SingleError(p, "CFN_LINT_NOT_FOUND"))
      [] launch = "PermissionError" -> Returned(SingleError(p, "CFN_LINT_PERMISSION_ERROR"))
      [] OTHER -> Raised(p)

\* the logger of cfn_linter.validation writes WARNING and above to stderr
CompletedLogs(c) ==
    \/ c.outcome = "timeout"
    \/ ParseOutput(c.stdout).raised
    \/ c.stdout.kind = "text"
    \/ (c.returncode # 0 /\ c.stdout.kind = "empty" /\ c.stderr # "")

\* the except clause of the loop in validate_all_templates
ProcessingError(p) == SingleError(p, "VALIDATION_PROCESSING_ERROR")

\* mutant: the warnings of a result are not added up
Tally_WarningsDropped(c, r) ==
    [valid_count |-> c.valid_count + (IF r.is_valid THEN 1 ELSE 0),
     failed_count |-> c.failed_count + (IF r.is_valid THEN 0 ELSE 1),
     total_errors |-> c.total_errors + Len(r.errors),
     total_warnings |-> c.total_warnings]

\* results.append(result) and the four counters
Tally(c, r) ==
    [valid_count |-> c.valid_count + (IF r.is_valid THEN 1 ELSE 0),
     failed_count |-> c.failed_count + (IF r.is_valid THEN 0 ELSE 1),
     total_errors |-> c.total_errors + Len(r.errors),
     total_warnings |-> c.total_warnings + Len(r.warnings)]

\* mutant: the safety net counts the failed template and not its error
TallyProcessingError_ErrorUncounted(c) ==
    [c EXCEPT !.failed_count = @ + 1]

TallyProcessingError(c) ==
    [c EXCEPT !.failed_count = @ + 1, !.total_errors = @ + 1]

ZeroCounts == [valid_count |-> 0, failed_count |-> 0, total_errors |-> 0, total_warnings |-> 0]

ValidationSummary(n, c, rs) ==
    [total_templates |-> n, valid_templates |-> c.valid_count,
     failed_templates |-> c.failed_count, total_errors |-> c.total_errors,
     total_warnings |-> c.total_warnings, results |-> rs]

-----------------------------------------------------------------------------
(* scripts/cfn_lint_runner.py: the helpers of main *)

Args == [quiet : BOOLEAN, verbose : BOOLEAN, fail_on_warnings : BOOLEAN, summary_only : BOOLEAN]

\* a print guarded by `if verbose:` alone
VerboseOut(verbose) == IF verbose THEN {"verbose"} ELSE {}

SetupOracles == [create : CreateOutcomes, pip : PipOutcomes, version : VersionOutcomes,
                 pip2 : PipOutcomes, exception : BOOLEAN]

\* mutant: Step 1 leaves the virtual environment to the validator
setup_environment_Deferred(f, verbose, o) ==
    [success |-> TRUE, error |-> "", fs |-> f, out |-> VerboseOut(verbose), ops |-> {}]

\* setup_environment: (success, error_message), with what it did to the disk,
\* what it printed and which VirtualEnvManager operations it called
setup_environment(f, verbose, o) ==
    IF o.exception
    THEN [success |-> FALSE, error |-> "Environment setup error", fs |-> f,
          out |-> {}, ops |-> {}]
    ELSE Only({
        IF ~e.ok
        THEN [success |-> FALSE, error |-> "Failed to create or verify virtual environment",
              fs |-> e.fs, out |-> VerboseOut(verbose) \cup e.out,
              ops |-> {"ensure_venv_exists"}]
        ELSE Only({
            IF a.ok
            THEN [success |-> TRUE, error |-> "", fs |-> a.fs,
                  out |-> VerboseOut(verbose) \cup e.out \cup a.out,
                  ops |-> {"ensure_venv_exists"} \cup a.ops]
            ELSE Only({
                [success |-> i.ok,
                 error |-> IF i.ok THEN "" ELSE "Failed to install cfn-lint dependencies",
                 fs |-> i.fs, out |-> VerboseOut(verbose) \cup e.out \cup a.out \cup i.out,
                 ops |-> {"ensure_venv_exists"} \cup a.ops \cup i.ops]
                : i \in {install_dependencies(a.fs, o.create, o.pip2)} })
            : a \in {is_cfn_lint_available(e.fs, o.create, o.pip, o.version)} })
        : e \in {ensure_venv_exists(f, o.create)} })

\* discover_templates: the walk finds n templates; the walk may print its
\* own warning on an OSError; the call may end in the except clause
DiscoverOutcomes == [n : 0..MaxTemplates, walk_warning : BOOLEAN, exception : BOOLEAN]

discover_templates(d) ==
    IF d.exception THEN [paths |-> <<>>, error |-> TRUE]
    ELSE [paths |-> [i \in 1..d.n |-> [name |-> i, is_path |-> TRUE]], error |-> FALSE]

\* mutant: --fail-on-warnings is parsed and never looked at
ExitCodeFor_WarningsIgnored(a, s) ==
    IF s.failed_templates > 0 THEN Exit(1) ELSE Exit(0)

\* "Determine exit code" at the end of main
ExitCodeFor(a, s) ==
    IF s.failed_templates > 0 THEN Exit(1)
    ELSE IF a.fail_on_warnings /\ s.total_warnings > 0 THEN Exit(1)
    ELSE Exit(0)

\* Step 4 of main and the last prints: what goes to stdout and to stderr
ReportOut(a, s) ==
    (IF ~a.quiet THEN {"summary"} ELSE {})
    \cup (IF ~a.quiet /\ ~a.summary_only THEN {"details"} ELSE {})
    \cup (IF ~a.quiet /\ ExitCodeFor(a, s) = Exit(0) THEN {"passed"} ELSE {})

ReportErr(a, s) == IF ~a.quiet /\ ExitCodeFor(a, s) = Exit(1) THEN {"FAILED"} ELSE {}

\* mutant: the next template is taken while cfn-lint still runs
LoopAtHead_Eager(p) == p \in {"va_loop", "vt_wait"}

\* the loop of validate_all_templates takes the next template only when the
\* call for the previous one has returned
LoopAtHead(p) == p = "va_loop"

\* mutant: with fail_fast the loop ends at the first failed template
MoreTemplates_FailFast(i, paths) ==
    /\ i <= Len(paths)
    /\ ~(get_environment_config(environ).validation_config.fail_fast /\ counts.failed_count > 0)

\* `for i, template_path in enumerate(template_paths)`: nothing but the end of
\* the list ends the loop
MoreTemplates(i, paths) == i <= Len(paths)

\* mutant: the result of setup_environment is not checked
SetupExit_Unchecked(success) == NoExit

\* `if not success: ... return 3`
SetupExit(success) == IF ~success THEN Exit(3) ELSE NoExit

\* mutant: an empty list of templates is validated like any other
DiscoveryExit_EmptyAccepted(r) == IF r.error THEN Exit(4) ELSE NoExit

\* `if error: ... return 4` and `if len(template_paths) == 0: ... return 2`
DiscoveryExit(r) ==
    IF r.error THEN Exit(4) ELSE IF Len(r.paths) = 0 THEN Exit(2) ELSE NoExit

\* main's local variables success and error, "unset" before the call that sets them
Unbound == <<>>
Bound(v) == <<v>>
NoLocals == [success |-> Unbound, discovery_error |-> Unbound, validation_error |-> Unbound]

-----------------------------------------------------------------------------
(* Initial states *)

\* no function is being called on its own
NoUnitCall == [fn |-> "none"]

InitCommon ==
    /\ fs \in {f \in FileSystems : f.lint => f.python}
    /\ exitCode = NoExit
    /\ out = {}
    /\ err = {}
    /\ venvOps = {}
    /\ idx = 0
    /\ cur = NoCall
    /\ running = 0
    /\ lintRuns = 0
    /\ results = <<>>
    /\ counts = ZeroCounts
    /\ raisedFor = {}
    /\ summary = NoSummary
    /\ locals = NoLocals
    /\ call = NoUnitCall

\* cfn_lint_runner.py started from the command line
Init ==
    /\ InitCommon
    /\ mode = "runner"
    /\ args \in Args
    /\ environ \in {e \in Environs : e.script = "cfn_lint_runner.py" /\ ~e.pytest
                                       /\ ~e.codebuild_src /\ ~e.ci_var}
    /\ rootExists \in BOOLEAN
    /\ rootExists \/ ~fs.python
    /\ pc = "main"
    /\ stages = <<>>
    /\ validatorCreated = FALSE
    /\ template_paths = <<>>

\* a caller that has built a CFNValidator and calls validate_all_templates
InitDirect ==
    /\ InitCommon
    /\ mode = "direct"
    /\ args = [quiet |-> FALSE, verbose |-> FALSE, fail_on_warnings |-> FALSE,
               summary_only |-> FALSE]
    /\ environ \in {e \in Environs : e.script \in {"python", "build.py"} /\ ~e.codebuild_src}
    /\ rootExists = TRUE
    /\ pc = "va_start"
    /\ stages = <<"env-detector">>
    /\ validatorCreated = TRUE
    /\ \E n \in 0..MaxTemplates :
           template_paths \in {ps \in [1..n -> UNION {PathValues(i) : i \in 1..n}] :
                                  \A i \in 1..n : ps[i].name = i}

\* no linter run: the state in which the other functions are called on their own
InitIdle ==
    /\ mode = "unit"
    /\ args = [quiet |-> FALSE, verbose |-> FALSE, fail_on_warnings |-> FALSE,
               summary_only |-> FALSE]
    /\ environ = [pytest |-> FALSE, ci_var |-> FALSE, codebuild_src |-> FALSE,
                  script |-> "python"]
    /\ rootExists = TRUE
    /\ fs = [python |-> FALSE, lint |-> FALSE]
    /\ pc = "idle"
    /\ exitCode = NoExit
    /\ out = {}
    /\ err = {}
    /\ stages = <<>>
    /\ venvOps = {}
    /\ validatorCreated = FALSE
    /\ template_paths = <<>>
    /\ idx = 0
    /\ cur = NoCall
    /\ running = 0
    /\ lintRuns = 0
    /\ results = <<>>
    /\ counts = ZeroCounts
    /\ raisedFor = {}
    /\ summary = NoSummary
    /\ locals = NoLocals

-----------------------------------------------------------------------------
(* main *)

Return(code) ==
    /\ exitCode' = code
    /\ pc' = "done"

\* lines 289-298
MainCheckRoot ==
    /\ pc = "main"
    /\ IF ~rootExists
       THEN /\ err' = {"ERROR:"}
            /\ Return(Exit(4))
       ELSE /\ err' = {}
            /\ pc' = "environment"
            /\ UNCHANGED exitCode
    /\ out' = {}
    /\ UNCHANGED <<call, mode, args, environ, rootExists, fs, stages, venvOps, validatorCreated,
                   template_paths, idx, cur, running, lintRuns, results, counts,
                   raisedFor, summary, locals>>

\* lines 300-316: EnvironmentManager, the consistency check, the context log
MainEnvironment ==
    /\ pc = "environment"
    /\ \E pythonVersionOk \in BOOLEAN :
         \E consistent \in {verify_environment_consistency(fs, pythonVersionOk)} :
         /\ err' = (IF consistent THEN {} ELSE {"log", "WARNING:"})
         /\ out' = (IF ~consistent /\ args.verbose THEN {"env_summary"} ELSE {})
                   \cup VerboseOut(args.verbose)
    /\ stages' = Enter(stages, "env-detector")
    /\ pc' = "setup"
    /\ UNCHANGED <<call, mode, args, environ, rootExists, fs, exitCode, venvOps,
                   validatorCreated, template_paths, idx, cur, running, lintRuns,
                   results, counts, raisedFor, summary, locals>>

\* lines 318-326
MainSetup ==
    /\ pc = "setup"
    /\ \E o \in SetupOracles :
         \E r \in {setup_environment(fs, args.verbose, o)} :
         /\ fs' = r.fs
         /\ venvOps' = venvOps \cup r.ops
         /\ stages' = IF r.ops = {} THEN stages ELSE Enter(stages, "venv-manager")
         /\ out' = r.out \cup (IF ~args.quiet THEN VerboseOut(args.verbose) ELSE {})
         /\ locals' = [locals EXCEPT !.success = Bound(r.success)]
         /\ IF SetupExit(r.success) # NoExit
            THEN /\ err' = {"ERROR:"}
                 /\ Return(SetupExit(r.success))
            ELSE /\ err' = {}
                 /\ pc' = "discover"
                 /\ UNCHANGED exitCode
    /\ UNCHANGED <<call, mode, args, environ, rootExists, validatorCreated, template_paths,
                   idx, cur, running, lintRuns, results, counts, raisedFor, summary>>

\* lines 328-347
MainDiscover ==
    /\ pc = "discover"
    /\ \E d \in DiscoverOutcomes :
         \E r \in {discover_templates(d)} :
         /\ template_paths' = r.paths
         /\ locals' = [locals EXCEPT !.discovery_error = Bound(r.error)]
         /\ out' = (IF ~args.quiet THEN VerboseOut(args.verbose) ELSE {})
                   \cup VerboseOut(args.verbose)
                   \cup (IF d.walk_warning /\ ~r.error THEN {"discovery_warning"} ELSE {})
                   \cup (IF DiscoveryExit(r) = Exit(2) /\ ~args.quiet THEN {"no_templates"} ELSE {})
         /\ err' = (IF DiscoveryExit(r) = Exit(4) THEN {"ERROR:"} ELSE {})
         /\ IF DiscoveryExit(r) # NoExit
            THEN Return(DiscoveryExit(r))
            ELSE /\ pc' = "validate"
                 /\ UNCHANGED exitCode
    /\ stages' = Enter(stages, "template-discovery")
    /\ UNCHANGED <<call, mode, args, environ, rootExists, fs, venvOps, validatorCreated, idx,
                   cur, running, lintRuns, results, counts, raisedFor, summary>>

\* lines 349-359 with validate_templates up to its call of
\* validate_all_templates: the CFNValidator is built; an exception there is
\* the error return of validate_templates and exit code 4 (lines 361-363)
MainValidate ==
    /\ pc = "validate"
    /\ \E constructorRaises \in BOOLEAN :
         IF constructorRaises
         THEN /\ err' = {"ERROR:"}
              /\ out' = (IF ~args.quiet THEN VerboseOut(args.verbose) ELSE {})
              /\ locals' = [locals EXCEPT !.validation_error = Bound(TRUE)]
              /\ Return(Exit(4))
              /\ UNCHANGED validatorCreated
         ELSE /\ validatorCreated' = TRUE
              /\ out' = (IF ~args.quiet THEN VerboseOut(args.verbose) ELSE {})
                        \cup VerboseOut(args.verbose)
              /\ err' = {}
              /\ pc' = "va_start"
              /\ UNCHANGED <<exitCode, locals>>
    /\ UNCHANGED <<call, mode, args, environ, rootExists, fs, stages, venvOps, template_paths,
                   idx, cur, running, lintRuns, results, counts, raisedFor, summary>>

\* validate_templates returns the summary; lines 361-386: the report and the
\* exit code
MainReport ==
    /\ pc = "report"
    /\ locals' = [locals EXCEPT !.validation_error = Bound(FALSE)]
    /\ out' = VerboseOut(args.verbose) \cup ReportOut(args, summary)
    /\ err' = ReportErr(args, summary)
    /\ stages' = IF ~args.quiet THEN Enter(stages, "formatter") ELSE stages
    /\ Return(ExitCodeFor(args, summary))
    /\ UNCHANGED <<call, mode, args, environ, rootExists, fs, venvOps, validatorCreated,
                   template_paths, idx, cur, running, lintRuns, results, counts,
                   raisedFor, summary>>

-----------------------------------------------------------------------------
(* CFNValidator.validate_all_templates and, inside its loop, validate_template *)

CurrentPath == template_paths[idx]

\* where validate_all_templates returns to
AfterValidation == IF mode = "runner" THEN "report" ELSE "returned"

\* validate_template returned r (logged: its logger wrote a record; entered:
\* the components the step went through): lines 428-438 of the loop, then the
\* next iteration
Deliver(r, logged, entered) ==
    /\ results' = Append(results, r)
    /\ counts' = Tally(counts, r)
    /\ err' = (IF logged THEN {"log"} ELSE {})
    /\ stages' = EnterAll(stages, entered \o <<"aggregator">>)
    /\ idx' = idx + 1
    /\ cur' = NoCall
    /\ pc' = "va_loop"
    /\ UNCHANGED raisedFor

\* validate_template raised: lines 440-462 of the loop, then the next iteration
DeliverRaised(entered) ==
    /\ results' = Append(results, ProcessingError(CurrentPath))
    /\ counts' = TallyProcessingError(counts)
    /\ err' = {"log"}
    /\ stages' = EnterAll(stages, entered \o <<"aggregator">>)
    /\ raisedFor' = raisedFor \cup {idx}
    /\ idx' = idx + 1
    /\ cur' = NoCall
    /\ pc' = "va_loop"

Conclude(o, logged, entered) ==
    IF o.raised THEN DeliverRaised(entered) ELSE Deliver(o.result, logged, entered)

\* lines 398-421
VA_Start ==
    /\ pc = "va_start"
    /\ results' = <<>>
    /\ counts' = ZeroCounts
    /\ IF Len(template_paths) = 0
       THEN /\ summary' = ValidationSummary(0, ZeroCounts, <<>>)
            /\ pc' = AfterValidation
            /\ UNCHANGED idx
       ELSE /\ idx' = 1
            /\ pc' = "va_loop"
            /\ UNCHANGED summary
    /\ out' = {}
    /\ err' = {}
    /\ UNCHANGED <<call, mode, args, environ, rootExists, fs, exitCode, stages, venvOps,
                   validatorCreated, template_paths, cur, running, lintRuns, raisedFor,
                   locals>>

\* line 427: the call of validate_template for the template in hand; the file
\* system's answers about it are fixed here
VT_Begin ==
    /\ LoopAtHead(pc)
    /\ MoreTemplates(idx, template_paths)
    /\ \E f \in FileSamples : cur' = [stage |-> "pre", file |-> f]
    /\ pc' = "vt_pre"
    /\ out' = {}
    /\ err' = {}
    /\ UNCHANGED <<call, mode, args, environ, rootExists, fs, exitCode, stages, venvOps,
                   validatorCreated, template_paths, idx, running, lintRuns, results,
                   counts, raisedFor, summary, locals>>

\* lines 85-225
VT_PreCheck ==
    /\ pc = "vt_pre"
    /\ \E verdict \in {PreCheck(CurrentPath, cur.file)} :
         CASE verdict = "raise" -> DeliverRaised(<<>>)
           [] verdict = "pass" ->
                  /\ pc' = "vt_path"
                  /\ cur' = [cur EXCEPT !.stage = "path"]
                  /\ err' = {}
                  /\ UNCHANGED <<results, counts, stages, idx, raisedFor>>
           [] OTHER -> Deliver(SingleError(CurrentPath, verdict), TRUE, <<>>)
    /\ out' = {}
    /\ UNCHANGED <<call, mode, args, environ, rootExists, fs, exitCode, venvOps,
                   validatorCreated, template_paths, running, lintRuns, summary, locals>>

\* lines 229-247
VT_GetPath ==
    /\ pc = "vt_path"
    /\ \E create \in CreateOutcomes, pip \in PipOutcomes :
         \E g \in {get_cfn_lint_path(fs, create, pip)} :
         /\ fs' = g.fs
         /\ venvOps' = venvOps \cup g.ops
         /\ out' = g.out
         /\ IF g.raised
            THEN Deliver(SingleError(CurrentPath, "CFN_LINT_SETUP_ERROR"), TRUE,
                         <<"venv-manager">>)
            ELSE /\ stages' = Enter(stages, "venv-manager")
                 /\ pc' = "vt_run"
                 /\ cur' = [cur EXCEPT !.stage = "run"]
                 /\ err' = {}
                 /\ UNCHANGED <<results, counts, idx, raisedFor>>
    /\ UNCHANGED <<call, mode, args, environ, rootExists, exitCode, validatorCreated,
                   template_paths, running, lintRuns, summary, locals>>

\* lines 249-292: subprocess.run starts cfn-lint, or fails to
VT_Run ==
    /\ pc = "vt_run"
    /\ \E launch \in LaunchOutcomes :
         IF launch = "started"
         THEN /\ running' = running + 1
              /\ lintRuns' = lintRuns + 1
              /\ stages' = Enter(stages, "linter")
              /\ pc' = "vt_wait"
              /\ cur' = [cur EXCEPT !.stage = "wait"]
              /\ err' = {}
              /\ UNCHANGED <<results, counts, idx, raisedFor>>
         ELSE /\ Conclude(CatchAll(CurrentPath, LaunchFailure(CurrentPath, launch)), TRUE,
                          <<"linter">>)
              /\ UNCHANGED <<running, lintRuns>>
    /\ out' = {}
    /\ UNCHANGED <<call, mode, args, environ, rootExists, fs, exitCode, venvOps,
                   validatorCreated, template_paths, summary, locals>>

\* lines 254-260 and 294-387: subprocess.run returns or times out, the output
\* is parsed and the result returned
VT_Finish ==
    /\ pc = "vt_wait"
    /\ \E c \in Completions :
         Conclude(CatchAll(CurrentPath, CompletedOutcome(CurrentPath, c)),
                  CompletedLogs(c), <<>>)
    /\ running' = running - 1
    /\ out' = {}
    /\ UNCHANGED <<call, mode, args, environ, rootExists, fs, exitCode, venvOps,
                   validatorCreated, template_paths, lintRuns, summary, locals>>

\* lines 464-484
VA_Return ==
    /\ LoopAtHead(pc)
    /\ ~MoreTemplates(idx, template_paths)
    /\ summary' = ValidationSummary(Len(template_paths), counts, results)
    /\ err' = (IF raisedFor # {} THEN {"log"} ELSE {})
    /\ out' = {}
    /\ pc' = AfterValidation
    /\ UNCHANGED <<call, mode, args, environ, rootExists, fs, exitCode, stages, venvOps,
                   validatorCreated, template_paths, idx, cur, running, lintRuns,
                   results, counts, raisedFor, locals>>

-----------------------------------------------------------------------------
(* Specifications *)

Validation ==
    \/ VA_Start
    \/ VT_Begin
    \/ VT_PreCheck
    \/ VT_GetPath
    \/ VT_Run
    \/ VT_Finish
    \/ VA_Return

Next ==
    \/ MainCheckRoot
    \/ MainEnvironment
    \/ MainSetup
    \/ MainDiscover
    \/ MainValidate
    \/ Validation
    \/ MainReport

\* a run of cfn_lint_runner.main
Spec == Init /\ [][Next]_vars

\* a call of validate_all_templates on any list
SpecDirect == InitDirect /\ [][Validation]_vars

-----------------------------------------------------------------------------
(* Properties *)

Done == pc = "done"

SomeInvalid(rs) == \E i \in 1..Len(rs) : ~rs[i].is_valid
SomeWarning(rs) == \E i \in 1..Len(rs) : Len(rs[i].warnings) > 0

\* C1: main returns exit code 0 if and only if the project root exists, the
\* environment setup succeeded, at least one template was discovered, the
\* validation completed without an execution error, no template result is
\* invalid (summary.failed_templates = 0), and --fail-on-warnings is not set
\* or summary.total_warnings = 0.
C1_ExitZeroIff ==
    Done =>
        (exitCode = Exit(0)
            <=> /\ rootExists
                /\ locals.success = Bound(TRUE)
                /\ locals.discovery_error = Bound(FALSE)
                /\ Len(template_paths) > 0
                /\ locals.validation_error = Bound(FALSE)
                /\ summary # NoSummary
                /\ ~SomeInvalid(summary.results)
                /\ summary.failed_templates = 0
                /\ (~args.fail_on_warnings \/ summary.total_warnings = 0))

\* a run that ends with 0 although a template has a warning
C1_Witness ==
    /\ Done
    /\ exitCode = Exit(0)
    /\ Len(summary.results) = 2
    /\ summary.total_warnings > 0

\* C2: once validation has run, main returns 1 whenever a template result is
\* invalid; with --fail-on-warnings it returns 1 also whenever a validated
\* template has a warning; without the flag a run whose results are all valid
\* returns 0, warnings or not.
C2_ExitOne ==
    (Done /\ locals.validation_error = Bound(FALSE)) =>
        /\ SomeInvalid(results) => exitCode = Exit(1)
        /\ (args.fail_on_warnings /\ SomeWarning(results)) => exitCode = Exit(1)
        /\ (~args.fail_on_warnings /\ ~SomeInvalid(results)) => exitCode = Exit(0)

\* a run that ends with 1 only because of --fail-on-warnings
C2_Witness ==
    /\ Done
    /\ exitCode = Exit(1)
    /\ args.fail_on_warnings
    /\ locals.validation_error = Bound(FALSE)
    /\ ~SomeInvalid(results)
    /\ SomeWarning(results)

\* C3: when the environment setup succeeded and the discovery returns an empty
\* list without an error, main returns 2, and in that run no CFNValidator is
\* created and no cfn-lint validation subprocess is started.
C3_NoTemplates ==
    (Done /\ locals.success = Bound(TRUE) /\ locals.discovery_error = Bound(FALSE) /\ template_paths = <<>>) =>
        /\ exitCode = Exit(2)
        /\ ~validatorCreated
        /\ lintRuns = 0
        /\ running = 0
        /\ summary = NoSummary

C3_Witness ==
    /\ Done
    /\ locals.success = Bound(TRUE)
    /\ locals.discovery_error = Bound(FALSE)
    /\ template_paths = <<>>
    /\ exitCode = Exit(2)

\* C4: when setup_environment reports failure, main returns 3 and performs
\* neither template discovery nor template validation in that run.
C4_SetupFailure ==
    locals.success = Bound(FALSE) =>
        /\ Done
        /\ exitCode = Exit(3)
        /\ locals.discovery_error = Unbound
        /\ \A i \in 1..Len(stages) : stages[i] \notin {"template-discovery", "linter", "aggregator"}
        /\ template_paths = <<>>
        /\ ~validatorCreated
        /\ lintRuns = 0
        /\ results = <<>>
        /\ summary = NoSummary

\* the setup failed in the installation of the dependencies
C4_Witness ==
    /\ Done
    /\ locals.success = Bound(FALSE)
    /\ exitCode = Exit(3)
    /\ "install_dependencies" \in venvOps

InOrder(rank(_)) ==
    \A i, j \in 1..Len(stages) : i < j => rank(stages[i]) <= rank(stages[j])

\* the order of the components as the overview lists them
ListedRank(name) ==
    CASE name = "env-detector" -> 1
      [] name = "template-discovery" -> 2
      [] name = "venv-manager" -> 3
      [] name = "linter" -> 4
      [] name = "aggregator" -> 5
      [] name = "formatter" -> 6

\* the order of Step 1 .. Step 4 of main; inside Step 3 a template that fails
\* a pre-check is aggregated without a cfn-lint subprocess, so which of the
\* linter and the aggregator is entered first depends on the templates
StepRank(name) ==
    CASE name = "env-detector" -> 1
      [] name = "venv-manager" -> 2
      [] name = "template-discovery" -> 3
      [] name = "linter" -> 4
      [] name = "aggregator" -> 4
      [] name = "formatter" -> 5

SetupOps == {"ensure_venv_exists", "is_cfn_lint_available", "get_cfn_lint_path"}

\* C5 as stated: the stages of a run of main are entered in the order
\* environment detection, template discovery, virtual-environment management,
\* cfn-lint subprocess, aggregation, formatting, and no virtual-environment
\* operation happens before the template discovery has completed.
C5_AsStated ==
    /\ InOrder(ListedRank)
    /\ venvOps # {} => \E i \in 1..Len(stages) : stages[i] = "template-discovery"

\* C5 amended: the stages of a run of main are first entered in the order
\* environment detection, virtual-environment management (Step 1), template
\* discovery (Step 2), cfn-lint subprocess and aggregation (Step 3), formatting
\* (Step 4); the discovery starts only after setup_environment has succeeded,
\* which has called ensure_venv_exists, is_cfn_lint_available and
\* get_cfn_lint_path; a cfn-lint validation subprocess starts only after the
\* discovery, and the formatting only after the summary is built.
C5_StepOrder ==
    /\ InOrder(StepRank)
    /\ (\E i \in 1..Len(stages) : stages[i] = "template-discovery") =>
            /\ locals.success = Bound(TRUE)
            /\ SetupOps \subseteq venvOps
    /\ lintRuns > 0 => locals.discovery_error = Bound(FALSE)
    /\ (\E i \in 1..Len(stages) : stages[i] = "formatter") => summary # NoSummary

\* a run through all six stages
C5_Witness ==
    /\ Done
    /\ stages = <<"env-detector", "venv-manager", "template-discovery", "linter",
                  "aggregator", "formatter">>
    /\ SetupOps \subseteq venvOps

\* C6 as stated: with --quiet nothing is written to standard output and
\* nothing but 'ERROR:' messages to standard error, for every combination of
\* the other flags and every outcome of the run.
C6_QuietOnlyErrors ==
    args.quiet => (out = {} /\ err \subseteq {"ERROR:"})

RECURSIVE SumErrors(_)
SumErrors(rs) == IF rs = <<>> THEN 0 ELSE Len(Head(rs).errors) + SumErrors(Tail(rs))

RECURSIVE SumWarnings(_)
SumWarnings(rs) == IF rs = <<>> THEN 0 ELSE Len(Head(rs).warnings) + SumWarnings(Tail(rs))

ValidCount(rs) == Cardinality({i \in 1..Len(rs) : rs[i].is_valid})
InvalidCount(rs) == Cardinality({i \in 1..Len(rs) : ~rs[i].is_valid})

InValidateTemplate == pc \in {"vt_pre", "vt_path", "vt_run", "vt_wait"}

PreCheckRules ==
    {"FILE_NOT_FOUND", "NOT_A_FILE", "PERMISSION_DENIED", "FILESYSTEM_ERROR", "EMPTY_FILE",
     "EMPTY_CONTENT", "ENCODING_ERROR", "FILE_READ_ERROR"}

\* C7: validate_template never raises: for every input path and every
\* behaviour of the cfn-lint step, the call for a Path ends in a returned
\* ValidationResult whose template_path is the input path; the safety net of
\* the caller is never reached for a Path.
C7_NeverRaises ==
    \A i \in 1..Len(results) :
        template_paths[i].is_path =>
            /\ i \notin raisedFor
            /\ results[i].template_path = template_paths[i]
            /\ results[i].is_valid \in BOOLEAN
            /\ \A k \in 1..Len(results[i].errors) :
                   results[i].errors[k].rule_id # "VALIDATION_PROCESSING_ERROR"

\* cfn-lint printed JSON that is no list of objects, for a Path, and the call
\* returned the EXECUTION_ERROR result
C7_Witness ==
    /\ Len(results) = 2
    /\ template_paths[2].is_path
    /\ results[2] = SingleError(template_paths[2], "EXECUTION_ERROR")
    /\ results[1].errors # <<>>
    /\ results[1].errors[1].rule_id \in PreCheckRules

\* C8: the ValidationSummary returned by validate_all_templates(paths) is
\* consistent with its results: total_templates = len(paths) = len(results),
\* results[i].template_path = paths[i], valid_templates is the number of valid
\* results, valid + failed = total, total_errors and total_warnings are the sums
\* of len(errors) and len(warnings); for the empty list all counts are 0 and
\* results is empty.
C8_SummaryConsistent ==
    summary # NoSummary =>
        /\ summary.total_templates = Len(template_paths)
        /\ summary.total_templates = Len(summary.results)
        /\ \A i \in 1..Len(summary.results) :
               summary.results[i].template_path = template_paths[i]
        /\ summary.valid_templates = ValidCount(summary.results)
        /\ summary.valid_templates + summary.failed_templates = summary.total_templates
        /\ summary.total_errors = SumErrors(summary.results)
        /\ summary.total_warnings = SumWarnings(summary.results)
        /\ template_paths = <<>> =>
               summary = ValidationSummary(0, ZeroCounts, <<>>)

\* a summary over a template with an error and a warning and an element that
\* went through the safety net
C8_Witness ==
    /\ summary # NoSummary
    /\ summary.total_templates = 2
    /\ summary.total_errors = 2
    /\ summary.total_warnings = 1
    /\ raisedFor # {}

Contexts == {"PYTEST", "BUILD_PIPELINE", "LOCAL", "UNKNOWN"}

\* C9: validation is strictly sequential: at most one cfn-lint subprocess runs
\* at any time, the validation of the template at index i+1 starts only after
\* the result for index i has been appended, and the validation configuration
\* has parallel_execution = False in every execution context.
C9_Sequential ==
    /\ running <= 1
    /\ running = 1 => pc = "vt_wait"
    /\ InValidateTemplate => Len(results) = idx - 1
    /\ \A ctx \in Contexts, ci \in BOOLEAN :
           get_validation_config(ctx, ci).parallel_execution = FALSE
    /\ get_environment_config(environ).validation_config.parallel_execution = FALSE

\* cfn-lint runs for the second template, the first result is in the list
C9_Witness ==
    /\ running = 1
    /\ idx = 2
    /\ Len(results) = 1
    /\ lintRuns = 2

-----------------------------------------------------------------------------
(* cfn_linter/template_discovery.py: TemplateDiscovery *)

\* the most names os.walk hands over in one search
MaxFiles == 2

TEMPLATE_EXTENSIONS == {".yml", ".yaml"}

\* the entries of EXCLUDED_FILES that end in a template extension; the others
\* ('README.md', '.gitignore', ...) never get past the extension check
EXCLUDED_FILES ==
    {<<"README", ".yml">>, <<"readme", ".yml">>, <<"README", ".yaml">>, <<"readme", ".yaml">>}

\* str.lower() on a suffix and on the stem of a file name
LowerSuffix(x) == IF x = ".YAML" THEN ".yaml" ELSE x
LowerStem(x) ==
    CASE x = "Template-App" -> "template-app"
      [] x = "README" -> "readme"
      [] OTHER -> x

\* 'template' in filename_lower
HasTemplate(lowered) == lowered = "template-app"

\* A name in the `files` of os.walk. path: its place in the order of the
\* paths; stat: what stat() answers ("regular", "other" for a broken link or
\* a fifo, "eacces" when the directory cannot be searched); place: where the
\* path lies ("v2": under project_root/templates/v2, "root": elsewhere under
\* project_root, "outside": not under project_root).
WalkedFile(path, stem, suffix, stat, place) ==
    [path |-> path, stem |-> stem, suffix |-> suffix, stat |-> stat, place |-> place]

FileKinds ==
    {[stem |-> st, suffix |-> su, stat |-> "regular", place |-> pl] :
        st \in {"Template-App", "README", "app"}, su \in {".yml", ".YAML", ".json"},
        pl \in {"v2", "root", "outside"}}
    \cup {[stem |-> "Template-App", suffix |-> ".yml", stat |-> "other", place |-> "v2"],
          [stem |-> "Template-App", suffix |-> ".yml", stat |-> "eacces", place |-> "v2"]}

\* what os.walk yields, in the order it yields it: the paths are distinct
Walks ==
    UNION {{w \in [1..n -> {WalkedFile(i, k.stem, k.suffix, k.stat, k.place) :
                               i \in 1..n, k \in FileKinds}] :
              \A i, j \in 1..n : i # j => w[i].path # w[j].path} : n \in 0..MaxFiles}

\* Path.is_file(): an OSError other than "no such file" leaves it
is_file(f) == [raised |-> f.stat = "eacces", value |-> f.stat = "regular"]

\* is_cloudformation_template, after is_file() has answered
is_cloudformation_template(f) ==
    IF ~is_file(f).value THEN FALSE
    ELSE IF LowerSuffix(f.suffix) \notin TEMPLATE_EXTENSIONS THEN FALSE
    ELSE IF <<f.stem, f.suffix>> \in EXCLUDED_FILES THEN FALSE
    ELSE IF HasTemplate(LowerStem(f.stem)) THEN TRUE
    ELSE IF f.place = "v2" THEN TRUE
    ELSE HasTemplate(LowerStem(f.stem))

\* list.sort() on paths
RECURSIVE InsertByPath(_, _)
InsertByPath(f, sorted) ==
    IF sorted = <<>> THEN <<f>>
    ELSE IF f.path <= Head(sorted).path THEN <<f>> \o sorted
    ELSE <<Head(sorted)>> \o InsertByPath(f, Tail(sorted))

RECURSIVE SortByPath(_)
SortByPath(fs0) == IF fs0 = <<>> THEN <<>> ELSE InsertByPath(Head(fs0), SortByPath(Tail(fs0)))

\* find_templates(base_path) is called
InitDiscovery ==
    /\ InitIdle
    /\ \E exists \in BOOLEAN, w \in Walks :
         /\ ~exists => w = <<>>
         /\ call = [fn |-> "find_templates", at |-> "called", base_exists |-> exists,
                    walk |-> w, pos |-> 0, template_files |-> <<>>, warned |-> FALSE,
                    returned |-> <<>>]

\* lines 47-52
FT_Exists ==
    /\ call.fn = "find_templates"
    /\ call.at = "called"
    /\ call' = IF ~call.base_exists
               THEN [call EXCEPT !.at = "returned", !.returned = <<>>]
               ELSE [call EXCEPT !.at = "walking", !.pos = 1]
    /\ UNCHANGED linterVars

\* lines 56-63, one file; lines 68-73 when the file system refuses
FT_Visit ==
    /\ call.fn = "find_templates"
    /\ call.at = "walking"
    /\ call.pos <= Len(call.walk)
    /\ \E f \in {call.walk[call.pos]} :
         call' = IF is_file(f).raised
                 THEN [call EXCEPT !.at = "returned", !.warned = TRUE,
                                   !.returned = call.template_files]
                 ELSE [call EXCEPT !.pos = @ + 1,
                                   !.template_files =
                                       IF is_cloudformation_template(f)
                                       THEN Append(@, f) ELSE @]
    /\ UNCHANGED linterVars

\* lines 65-66 and 73
FT_Return ==
    /\ call.fn = "find_templates"
    /\ call.at = "walking"
    /\ call.pos > Len(call.walk)
    /\ call' = [call EXCEPT !.at = "returned", !.template_files = SortByPath(@),
                            !.returned = SortByPath(call.template_files)]
    /\ UNCHANGED linterVars

NextDiscovery ==
    \/ FT_Exists
    \/ FT_Visit
    \/ FT_Return

SpecDiscovery == InitDiscovery /\ [][NextDiscovery]_vars

Elements(q) == {q[i] : i \in 1..Len(q)}

\* C11 as stated: find_templates(base) returns exactly the regular files found
\* under base whose suffix is .yml or .yaml whatever its case, whose name is
\* not in EXCLUDED_FILES, and which have 'template' in their lower-cased name
\* or lie under project_root/templates/v2; every returned path exists; the
\* result is empty when base does not exist or holds no such file. (A file
\* whose stat() is refused is not asked for.)
C11_ExactlyTheTemplates ==
    (call.fn = "find_templates" /\ call.at = "returned") =>
        /\ Elements(call.returned) =
               {f \in Elements(call.walk) :
                   /\ f.stat = "regular"
                   /\ LowerSuffix(f.suffix) \in {".yml", ".yaml"}
                   /\ <<f.stem, f.suffix>> \notin EXCLUDED_FILES
                   /\ (HasTemplate(LowerStem(f.stem)) \/ f.place = "v2")}
        /\ Len(call.returned) = Cardinality(Elements(call.returned))
        /\ ~call.base_exists => call.returned = <<>>

-----------------------------------------------------------------------------
(* cfn_linter/environment.py: detect_execution_context called on its own *)

\* a variable of os.environ: not there, there and empty, there with a value
EnvValues == {"unset", "empty", "value"}

\* sys.argv[0], "<no argv>" when sys.argv is empty
Argv0s == {"scripts/cfn_lint_runner.py", "build.py", "/ci/pipeline.py", "tools/my_build.py",
           "/usr/bin/python", "<no argv>"}

\* os.path.basename(sys.argv[0]) if sys.argv else ''
Basename(a) ==
    CASE a = "scripts/cfn_lint_runner.py" -> "cfn_lint_runner.py"
      [] a = "/ci/pipeline.py" -> "pipeline.py"
      [] a = "tools/my_build.py" -> "my_build.py"
      [] a = "/usr/bin/python" -> "python"
      [] a = "<no argv>" -> ""
      [] OTHER -> a

\* what the process looks like: a frame of the stack with 'pytest' in its file
\* name, one of the three pytest variables, the pytest module in sys.modules,
\* one of the listed CI variables, CODEBUILD_SRC_DIR, sys.argv[0]
Processes ==
    [pytest_frame : BOOLEAN, pytest_var : EnvValues \ {"empty"}, pytest_module : BOOLEAN,
     ci_var : EnvValues, codebuild_src_dir : EnvValues, argv0 : Argv0s]

\* what the detector's checks read of a process
Detected(p) ==
    [pytest |-> p.pytest_frame \/ p.pytest_var # "unset" \/ p.pytest_module,
     ci_var |-> p.ci_var # "unset",
     codebuild_src |-> p.codebuild_src_dir = "value",
     script |-> Basename(p.argv0)]

InitDetect ==
    /\ InitIdle
    /\ \E p \in Processes :
         call = [fn |-> "detect_execution_context", at |-> "called", process |-> p,
                 returned |-> "<none>"]

\* lines 47-65
DetectContext ==
    /\ call.fn = "detect_execution_context"
    /\ call.at = "called"
    /\ call' = [call EXCEPT !.at = "returned",
                            !.returned = detect_execution_context(Detected(call.process))]
    /\ UNCHANGED linterVars

SpecDetect == InitDetect /\ [][DetectContext]_vars

PytestIndicator(p) == p.pytest_frame \/ p.pytest_var # "unset" \/ p.pytest_module

PipelineIndicator(p) ==
    \/ p.ci_var \in {"empty", "value"}
    \/ p.codebuild_src_dir = "value"
    \/ p.argv0 \in {"scripts/cfn_lint_runner.py", "build.py", "/ci/pipeline.py"}

\* C12: detect_execution_context returns PYTEST whenever a pytest indicator
\* holds, also when CI indicators hold too; otherwise BUILD_PIPELINE whenever a
\* listed CI variable is set, CODEBUILD_SRC_DIR is non-empty or the script is
\* cfn_lint_runner.py, build.py or pipeline.py; otherwise LOCAL; never UNKNOWN.
C12_ContextPrecedence ==
    (call.fn = "detect_execution_context" /\ call.at = "returned") =>
        /\ PytestIndicator(call.process) => call.returned = "PYTEST"
        /\ (~PytestIndicator(call.process) /\ PipelineIndicator(call.process)) =>
               call.returned = "BUILD_PIPELINE"
        /\ (~PytestIndicator(call.process) /\ ~PipelineIndicator(call.process)) =>
               call.returned = "LOCAL"
        /\ call.returned # "UNKNOWN"

\* pytest was imported in a CodeBuild job started through the runner script
C12_Witness ==
    /\ call.fn = "detect_execution_context"
    /\ call.at = "returned"
    /\ call.process.pytest_module
    /\ ~call.process.pytest_frame
    /\ call.process.ci_var = "value"
    /\ call.process.codebuild_src_dir = "value"
    /\ call.process.argv0 = "scripts/cfn_lint_runner.py"
    /\ call.returned = "PYTEST"

-----------------------------------------------------------------------------
(* cfn_linter/venv_manager.py: the VirtualEnvManager called on its own *)

\* the most calls made on one VirtualEnvManager
MaxCalls == 2

\* the last call: its name, the disk before it, what the subprocesses did,
\* and how it ended (ok: the value returned by ensure_venv_exists; raised:
\* get_cfn_lint_path raised RuntimeError; spawned: python -m venv was started)
NoVenvCall ==
    [name |-> "none", before |-> [python |-> FALSE, lint |-> FALSE], create |-> "ok",
     pip |-> "ok", ok |-> FALSE, raised |-> FALSE, spawned |-> FALSE]

InitVenv ==
    /\ InitIdle
    /\ \E f \in FileSystems :
         call = [fn |-> "VirtualEnvManager", n |-> 0, disk |-> f, last |-> NoVenvCall]

\* lines 35-60
CallEnsureVenvExists ==
    /\ call.fn = "VirtualEnvManager"
    /\ call.n < MaxCalls
    /\ \E create \in CreateOutcomes :
         \E r \in {ensure_venv_exists(call.disk, create)} :
           call' = [call EXCEPT !.n = @ + 1, !.disk = r.fs,
                      !.last = [name |-> "ensure_venv_exists", before |-> call.disk,
                                create |-> create, pip |-> "ok", ok |-> r.ok,
                                raised |-> FALSE, spawned |-> r.spawned]]
    /\ UNCHANGED linterVars

\* lines 114-139
CallGetCfnLintPath ==
    /\ call.fn = "VirtualEnvManager"
    /\ call.n < MaxCalls
    /\ \E create \in CreateOutcomes, pip \in PipOutcomes :
         \E r \in {get_cfn_lint_path(call.disk, create, pip)} :
           call' = [call EXCEPT !.n = @ + 1, !.disk = r.fs,
                      !.last = [name |-> "get_cfn_lint_path", before |-> call.disk,
                                create |-> create, pip |-> pip, ok |-> ~r.raised,
                                raised |-> r.raised,
                                spawned |-> ensure_venv_exists(call.disk, create).spawned]]
    /\ UNCHANGED linterVars

NextVenv ==
    \/ CallEnsureVenvExists
    \/ CallGetCfnLintPath

SpecVenv == InitVenv /\ [][NextVenv]_vars

\* the three cases in which get_cfn_lint_path has no path to return
VenvNotEnsured(c) == ~ensure_venv_exists(c.before, c.create).ok

InstallFailed(c) ==
    /\ ~VenvNotEnsured(c)
    /\ ~ensure_venv_exists(c.before, c.create).fs.lint
    /\ ~install_dependencies(ensure_venv_exists(c.before, c.create).fs, c.create, c.pip).ok

StillMissing(c) ==
    /\ ~VenvNotEnsured(c)
    /\ ~ensure_venv_exists(c.before, c.create).fs.lint
    /\ install_dependencies(ensure_venv_exists(c.before, c.create).fs, c.create, c.pip).ok
    /\ ~call.disk.lint

\* C13: get_cfn_lint_path returns a path only if the cfn-lint executable
\* exists in the bin directory when it returns; otherwise it raises
\* RuntimeError: when the virtual environment cannot be ensured, when cfn-lint
\* is missing and the installation fails, or when cfn-lint is still missing
\* after a successful installation.
C13_PathOnlyIfInstalled ==
    (call.fn = "VirtualEnvManager" /\ call.last.name = "get_cfn_lint_path") =>
        /\ ~call.last.raised => (call.disk.lint /\ call.disk.python)
        /\ call.last.raised <=>
               (VenvNotEnsured(call.last) \/ InstallFailed(call.last) \/ StillMissing(call.last))

\* the call installed cfn-lint into a fresh virtual environment and returned
C13_Witness ==
    /\ call.fn = "VirtualEnvManager"
    /\ call.last.name = "get_cfn_lint_path"
    /\ ~call.last.raised
    /\ call.last.before = [python |-> FALSE, lint |-> FALSE]
    /\ call.disk = [python |-> TRUE, lint |-> TRUE]

\* C14 as stated: ensure_venv_exists never raises and returns True exactly
\* when, on return, the virtual environment's python executable exists as a
\* regular file; when the virtual environment is valid before the call it
\* starts no creation subprocess and changes nothing.
C14_TrueIffPythonExists ==
    (call.fn = "VirtualEnvManager" /\ call.last.name = "ensure_venv_exists") =>
        /\ ~call.last.raised
        /\ call.last.ok <=> call.disk.python
        /\ call.last.before.python =>
               (call.last.ok /\ ~call.last.spawned /\ call.disk = call.last.before)

-----------------------------------------------------------------------------
(* scripts/s3_inventory.py *)

\* the most object versions, and the most delete markers, in the bucket
MaxVersions == 2
MaxDeleteMarkers == 1

\* A string is the sequence of its characters, so that strip and rstrip do
\* what they do in the code.
RECURSIVE LStripSlash(_)
LStripSlash(str) ==
    IF str # <<>> /\ Head(str) = "/" THEN LStripSlash(Tail(str)) ELSE str

RECURSIVE RStripSlash(_)
RStripSlash(str) ==
    IF str # <<>> /\ str[Len(str)] = "/"
    THEN RStripSlash(SubSeq(str, 1, Len(str) - 1)) ELSE str

\* str.strip('/')
StripSlash(str) == RStripSlash(LStripSlash(str))

StartsWith(str, prefix) ==
    Len(prefix) <= Len(str) /\ SubSeq(str, 1, Len(prefix)) = prefix

\* the optional positional argument `path`; <<>> is the default ''
PathArguments ==
    {<<>>, <<"/">>, <<"a">>, <<"a", "/">>, <<"/", "a">>, <<"/", "a", "/", "/">>,
     <<"a", "/", "b">>, <<"/", "/", "a", "/", "b", "/">>}

\* object keys in the bucket
Keys == {<<"a", "/", "x">>, <<"a", "/", "y">>, <<"b">>}

\* an element of page['Versions']; VersionId may be absent; LastModified is a time
NoVersionId == "<absent>"
Versions == [Key : Keys, VersionId : {"v1", NoVersionId}, LastModified : 1..2]
DeleteMarkers == [Key : Keys]

\* line 276: path = args.path.strip('/') + '/'
MainPath(argument) == StripSlash(argument) \o <<"/">>

\* lines 106-110: the parameters of paginator.paginate
PaginateParams(prefix) ==
    IF prefix # <<>>
    THEN [has_prefix |-> TRUE, Prefix |-> RStripSlash(prefix) \o <<"/">>]
    ELSE [has_prefix |-> FALSE, Prefix |-> <<>>]

\* what S3 lists for the parameters: everything, or the keys under Prefix
RECURSIVE Listed(_, _)
Listed(items, params) ==
    IF items = <<>> THEN <<>>
    ELSE IF params.has_prefix /\ ~StartsWith(Head(items).Key, params.Prefix)
    THEN Listed(Tail(items), params)
    ELSE <<Head(items)>> \o Listed(Tail(items), params)

\* lines 204-218: the entry appended for a version
InventoryEntry(item) ==
    [key |-> item.Key, version_id |-> item.VersionId, last_modified |-> item.LastModified,
     base_uri |-> <<"s3://", item.Key>>,
     uri |-> IF item.VersionId # NoVersionId
             THEN <<"s3://", item.Key, "?versionId=", item.VersionId>>
             ELSE <<"s3://", item.Key>>]

\* objects[key].append(entry) on a defaultdict(list)
AppendTo(objects, key, entry) ==
    [k \in DOMAIN objects \cup {key} |->
        IF k \in DOMAIN objects
        THEN (IF k = key THEN Append(objects[k], entry) ELSE objects[k])
        ELSE <<entry>>]

\* lines 197-218
RECURSIVE CollectVersions(_, _, _)
CollectVersions(items, deleted_keys, objects) ==
    IF items = <<>> THEN objects
    ELSE IF Head(items).Key \in deleted_keys
    THEN CollectVersions(Tail(items), deleted_keys, objects)
    ELSE CollectVersions(Tail(items), deleted_keys,
                         AppendTo(objects, Head(items).Key, InventoryEntry(Head(items))))

RECURSIVE InsertByLastModified(_, _)
InsertByLastModified(e, sorted) ==
    IF sorted = <<>> THEN <<e>>
    ELSE IF e.last_modified < Head(sorted).last_modified THEN <<e>> \o sorted
    ELSE <<Head(sorted)>> \o InsertByLastModified(e, Tail(sorted))

\* mutant: the versions stay in the order of the listing
SortByLastModified_Unsorted(entries) == entries

\* versions.sort(key=lambda x: x['last_modified']): a stable sort
RECURSIVE SortByLastModified(_)
SortByLastModified(entries) ==
    IF entries = <<>> THEN <<>>
    ELSE InsertByLastModified(entries[Len(entries)],
                              SortByLastModified(SubSeq(entries, 1, Len(entries) - 1)))

\* lines 188-224
process_objects(versions, delete_markers) ==
    Only({ [k \in DOMAIN objects |-> SortByLastModified(objects[k])]
           : objects \in {CollectVersions(versions,
                                          {delete_markers[i].Key : i \in 1..Len(delete_markers)},
                                          [k \in {} |-> <<>>])} })

\* s3_inventory.py <bucket> [path] is started; the bucket holds the versions
\* and the delete markers
InitInventory ==
    /\ InitIdle
    /\ \E argument \in PathArguments, vs \in SeqsUpTo(Versions, MaxVersions),
          dms \in SeqsUpTo(DeleteMarkers, MaxDeleteMarkers) :
         call = [fn |-> "s3_inventory", at |-> "main", argument |-> argument,
                 bucket_versions |-> vs, bucket_delete_markers |-> dms, path |-> <<>>,
                 params |-> PaginateParams(<<>>), versions |-> <<>>, delete_markers |-> <<>>,
                 objects |-> <<>>, exit |-> NoExit]

\* lines 264-282
InventoryMain ==
    /\ call.fn = "s3_inventory"
    /\ call.at = "main"
    /\ call' = [call EXCEPT !.at = "list", !.path = MainPath(call.argument)]
    /\ UNCHANGED linterVars

\* lines 284-299 with get_bucket_inventory, lines 92-130; an error of the
\* client ends main with 1 (lines 320-328)
InventoryList ==
    /\ call.fn = "s3_inventory"
    /\ call.at = "list"
    /\ \E clientError \in BOOLEAN :
         \E params \in {PaginateParams(call.path)} :
           call' = IF clientError
                   THEN [call EXCEPT !.at = "done", !.exit = Exit(1)]
                   ELSE [call EXCEPT !.at = "process", !.params = params,
                           !.versions = Listed(call.bucket_versions, params),
                           !.delete_markers = Listed(call.bucket_delete_markers, params)]
    /\ UNCHANGED linterVars

\* lines 301-330
InventoryProcess ==
    /\ call.fn = "s3_inventory"
    /\ call.at = "process"
    /\ call' = IF call.versions = <<>> /\ call.delete_markers = <<>>
               THEN [call EXCEPT !.at = "done", !.exit = Exit(0)]
               ELSE [call EXCEPT !.at = "done", !.exit = Exit(0),
                       !.objects = process_objects(call.versions, call.delete_markers)]
    /\ UNCHANGED linterVars

NextInventory ==
    \/ InventoryMain
    \/ InventoryList
    \/ InventoryProcess

SpecInventory == InitInventory /\ [][NextInventory]_vars

Processed ==
    /\ call.fn = "s3_inventory"
    /\ call.at = "done"
    /\ call.exit = Exit(0)
    /\ ~(call.versions = <<>> /\ call.delete_markers = <<>>)

KeysOf(items) == {items[i].Key : i \in 1..Len(items)}

Occurrences(q, x) == Cardinality({i \in 1..Len(q) : q[i] = x})

\* C15: process_objects returns a mapping whose keys are exactly the keys with
\* at least one version and no delete marker; each key maps to all of its
\* versions, none dropped and none duplicated, in ascending order of
\* last_modified; no key maps to an empty list.
C15_ProcessObjects ==
    Processed =>
        /\ DOMAIN call.objects = KeysOf(call.versions) \ KeysOf(call.delete_markers)
        /\ \A k \in DOMAIN call.objects :
               /\ call.objects[k] # <<>>
               /\ \A i \in 1..Len(call.objects[k]) : call.objects[k][i].key = k
               /\ \A v \in Versions :
                      v.Key = k =>
                          Occurrences(call.objects[k], InventoryEntry(v))
                              = Occurrences(call.versions, v)
               /\ Len(call.objects[k])
                      = Cardinality({i \in 1..Len(call.versions) : call.versions[i].Key = k})
               /\ \A i, j \in 1..Len(call.objects[k]) :
                      i < j => call.objects[k][i].last_modified
                                   <= call.objects[k][j].last_modified

\* the newer version of a key was listed first, and the other key has a
\* delete marker
C15_Witness ==
    /\ Processed
    /\ Len(call.versions) = 2
    /\ call.versions[1].Key = call.versions[2].Key
    /\ call.versions[1].LastModified > call.versions[2].LastModified
    /\ call.delete_markers # <<>>
    /\ DOMAIN call.objects # {}

\* C16 as stated: without the path argument list_object_versions is paginated
\* with no Prefix parameter; with a path the Prefix is the path without its
\* leading and trailing slashes, followed by exactly one '/'.
C16_PrefixSent ==
    (call.fn = "s3_inventory" /\ call.at \in {"process", "done"} /\ call.exit # Exit(1)) =>
        IF call.argument = <<>>
        THEN ~call.params.has_prefix
        ELSE /\ call.params.has_prefix
             /\ call.params.Prefix = StripSlash(call.argument) \o <<"/">>

-----------------------------------------------------------------------------
(* examples/test-postdeploy-functionality.py: PostDeployTester *)

\* the default of --template-path, which is also the literal in
\* validate_conditional_logic
PipelineTemplate == "templates/v2/pipeline/template-pipeline.yml"

TemplateFiles == {PipelineTemplate, "work/template-pipeline.yml", "missing.yml"}

\* create_test_parameters: the one parameter that differs between the phases
create_test_parameters(postdeploy_enabled) ==
    [PostDeployStageEnabled |-> IF postdeploy_enabled THEN "true" ELSE "false"]

\* the template_path argument of the two deploy_stack calls, lines 214 and 235
DeployedTemplate(phase) == PipelineTemplate

\* python test-postdeploy-functionality.py --template-path <argument>; `files`
\* are the template files that exist
InitPostDeploy ==
    /\ InitIdle
    /\ \E argument \in TemplateFiles, files \in SUBSET TemplateFiles :
         call = [fn |-> "PostDeployTester", at |-> "main", argument |-> argument,
                 files |-> files, deployments |-> <<>>, steps |-> <<>>, stack |-> FALSE,
                 success |-> FALSE, exit |-> NoExit]

\* lines 302-319
PostDeployMain ==
    /\ call.fn = "PostDeployTester"
    /\ call.at = "main"
    /\ call' = IF call.argument \notin call.files
               THEN [call EXCEPT !.at = "exit", !.exit = Exit(1)]
               ELSE [call EXCEPT !.at = "deploy_disabled"]
    /\ UNCHANGED linterVars

\* deploy_stack, lines 62-102, called at line 214 or 235: open() fails, or
\* create_stack is called with the body of the file and the stack is created
\* or not
Deploy(phase, enabled, next) ==
    /\ call.fn = "PostDeployTester"
    /\ call.at = phase
    /\ \E template \in {DeployedTemplate(phase)}, created \in BOOLEAN :
         call' = IF template \notin call.files
                 THEN [call EXCEPT !.at = "finish", !.steps = Append(@, "open failed")]
                 ELSE IF ~created
                 THEN [call EXCEPT !.at = "finish", !.steps = Append(@, "create failed"),
                         !.deployments =
                             Append(@, [template |-> template,
                                        parameters |-> create_test_parameters(enabled)])]
                 ELSE [call EXCEPT !.at = next, !.stack = TRUE,
                         !.steps = Append(@, "created"),
                         !.deployments =
                             Append(@, [template |-> template,
                                        parameters |-> create_test_parameters(enabled)])]
    /\ UNCHANGED linterVars

PostDeployDeployDisabled == Deploy("deploy_disabled", FALSE, "validate_disabled")

PostDeployDeployEnabled == Deploy("deploy_enabled", TRUE, "validate_enabled")

\* lines 217-226: the two validations, then cleanup_stack
PostDeployValidateDisabled ==
    /\ call.fn = "PostDeployTester"
    /\ call.at = "validate_disabled"
    /\ \E resources_ok \in BOOLEAN, pipeline_ok \in BOOLEAN :
         call' = IF resources_ok /\ pipeline_ok
                 THEN [call EXCEPT !.at = "deploy_enabled", !.stack = FALSE,
                         !.steps = Append(@, "validated")]
                 ELSE [call EXCEPT !.at = "finish",
                         !.steps = Append(@, IF resources_ok THEN "pipeline wrong"
                                             ELSE "resources wrong")]
    /\ UNCHANGED linterVars

\* lines 238-246
PostDeployValidateEnabled ==
    /\ call.fn = "PostDeployTester"
    /\ call.at = "validate_enabled"
    /\ \E resources_ok \in BOOLEAN, pipeline_ok \in BOOLEAN :
         call' = IF resources_ok /\ pipeline_ok
                 THEN [call EXCEPT !.at = "finish", !.success = TRUE,
                         !.steps = Append(@, "validated")]
                 ELSE [call EXCEPT !.at = "finish",
                         !.steps = Append(@, IF resources_ok THEN "pipeline wrong"
                                             ELSE "resources wrong")]
    /\ UNCHANGED linterVars

\* run_full_test, lines 277-299, and line 321
PostDeployFinish ==
    /\ call.fn = "PostDeployTester"
    /\ call.at = "finish"
    /\ call' = [call EXCEPT !.at = "exit", !.stack = FALSE,
                            !.exit = IF call.success THEN Exit(0) ELSE Exit(1)]
    /\ UNCHANGED linterVars

NextPostDeploy ==
    \/ PostDeployMain
    \/ PostDeployDeployDisabled
    \/ PostDeployValidateDisabled
    \/ PostDeployDeployEnabled
    \/ PostDeployValidateEnabled
    \/ PostDeployFinish

SpecPostDeploy == InitPostDeploy /\ [][NextPostDeploy]_vars

\* C17 as stated: the template that PostDeployTester deploys, in the disabled
\* and in the enabled phase of run_full_test, is the file given by
\* --template-path.
C17_DeploysGivenTemplate ==
    call.fn = "PostDeployTester" =>
        \A i \in 1..Len(call.deployments) : call.deployments[i].template = call.argument

-----------------------------------------------------------------------------
(* tests/test_arn_pattern_validation.py: ARN_PATTERN under re.match *)

\* A string is a sequence of tokens. One-character tokens: "a" a lower-case
\* letter, "A" an upper-case letter, "7" an ASCII digit, "-", "_", ".", ":",
\* "/", " " and LF, the newline. The other tokens are the words of the
\* pattern and runs of digits: "7*12" is twelve ASCII digits, "7*5" and "7*13"
\* five and thirteen, "d*12" twelve decimal digits that are not ASCII.
LF == "<newline>"

ArnServices == {"lambda", "sqs", "states", "sns"}
ArnResourceTypes == {"function", "queue", "stateMachine", "topic"}

\* [a-z0-9-] and [a-zA-Z0-9-_]
RegionClass == {"a", "7", "-"}
NameClass == {"a", "A", "7", "-", "_"}

\* \d{12}: twelve characters of the Unicode category Nd, and nothing of a
\* longer run can follow because ':' must
TwelveDigits == {"7*12", "d*12"}

NoMatch == <<"<no match>">>

\* the next token is one of `tokens`: what is left of the string, or NoMatch
Expect(rest, tokens) ==
    IF rest # NoMatch /\ rest # <<>> /\ Head(rest) \in tokens THEN Tail(rest) ELSE NoMatch

RECURSIVE SkipClass(_, _)
SkipClass(rest, class) ==
    IF rest # <<>> /\ Head(rest) \in class THEN SkipClass(Tail(rest), class) ELSE rest

\* [class]+ : greedy; what follows in the pattern is never in the class
OneOrMore(rest, class) ==
    IF rest # NoMatch /\ rest # <<>> /\ Head(rest) \in class
    THEN SkipClass(Tail(rest), class) ELSE NoMatch

\* `$` without re.MULTILINE: at the end of the string, or just before a
\* newline that ends the string
AtDollar(rest) == rest = <<>> \/ rest = <<LF>>

\* re.match(ARN_PATTERN, str) is not None
ArnPatternMatches(str) ==
    \/ AtDollar(str)
    \/ LET afterService == Expect(Expect(Expect(str, {"arn:aws:"}), ArnServices), {":"})
           afterRegion == Expect(OneOrMore(afterService, RegionClass), {":"})
           afterAccount == Expect(Expect(afterRegion, TwelveDigits), {":"})
           afterType == Expect(Expect(afterAccount, ArnResourceTypes), {"/"})
           afterName == OneOrMore(afterType, NameClass)
       IN  afterName # NoMatch /\ AtDollar(afterName)

\* the strings tried: every combination of right and wrong parts, with and
\* without something after the name, and the strings with missing parts
ArnRegions == {<<"a", "-", "7">>, <<"A">>, <<"-">>, <<>>}
ArnAccounts == {"7*12", "7*5", "7*13", "d*12"}
ArnNames == {<<"a", "_", "7", "-", "A">>, <<"a", ".", "a">>, <<"_">>, <<>>}
ArnTails == {<<>>, <<LF>>, <<LF, LF>>, <<" ">>}

ArnStrings ==
    {<<pre, svc, ":">> \o region \o <<":", account, ":", type, sep>> \o name \o tail :
        pre \in {"arn:aws:", "arn:gov:"}, svc \in ArnServices \cup {"ec2"},
        region \in ArnRegions, account \in ArnAccounts,
        type \in ArnResourceTypes \cup {"instance"}, sep \in {"/", ":"},
        name \in ArnNames, tail \in ArnTails}
    \cup {<<>>, <<LF>>, <<LF, LF>>, <<" ">>, <<"a", "-", "a">>, <<"arn:aws:", "lambda">>,
          <<"arn:aws:", "lambda", ":", "a", "-", "7">>,
          <<"arn:aws:", "lambda", ":", "a", "-", "7", ":", "7*12">>,
          <<" ", "arn:aws:", "lambda", ":", "a", ":", "7*12", ":", "function", "/", "a">>}

InitArn ==
    /\ InitIdle
    /\ \E str \in ArnStrings :
         call = [fn |-> "ARN_PATTERN", at |-> "called", string |-> str, accepted |-> FALSE]

\* pattern.match(arn) is not None
ArnMatch ==
    /\ call.fn = "ARN_PATTERN"
    /\ call.at = "called"
    /\ call' = [call EXCEPT !.at = "returned", !.accepted = ArnPatternMatches(call.string)]
    /\ UNCHANGED linterVars

SpecArn == InitArn /\ [][ArnMatch]_vars

OverClass(str, class) == \A i \in 1..Len(str) : str[i] \in class

\* the strings the claim lists: empty, or arn:aws:S:R:A:T/N (twelve digits of
\* any script are taken as "12 digits")
ArnOfTheForm(str) ==
    \/ str = <<>>
    \/ \E svc \in ArnServices, region \in ArnRegions, account \in {"7*12", "d*12"},
          type \in ArnResourceTypes, name \in ArnNames :
         /\ region # <<>> /\ OverClass(region, {"a", "7", "-"})
         /\ name # <<>> /\ OverClass(name, {"a", "A", "7", "-", "_"})
         /\ str = <<"arn:aws:", svc, ":">> \o region \o <<":", account, ":", type, "/">> \o name

\* C18 as stated: ARN_PATTERN applied with re.match accepts exactly the empty
\* string and the strings arn:aws:S:R:A:T/N with S one of lambda, sqs, states,
\* sns, R non-empty over lower-case letters, digits and '-', A twelve digits,
\* T one of function, queue, stateMachine, topic and N non-empty over letters,
\* digits, '-' and '_'; every other string is rejected.
C18_AcceptsExactly ==
    (call.fn = "ARN_PATTERN" /\ call.at = "returned") =>
        (call.accepted <=> ArnOfTheForm(call.string))

-----------------------------------------------------------------------------
(* validate_template: the file pre-checks *)

\* the checks in the order the claim gives them, and what makes each fail
CheckOrder ==
    <<"FILE_NOT_FOUND", "NOT_A_FILE", "PERMISSION_DENIED", "EMPTY_FILE", "EMPTY_CONTENT",
      "ENCODING_ERROR", "FILE_READ_ERROR">>

CheckFails(f, rule) ==
    CASE rule = "FILE_NOT_FOUND" -> ~f.exists
      [] rule = "NOT_A_FILE" -> ~f.is_file
      [] rule = "PERMISSION_DENIED" -> ~f.readable
      [] rule = "EMPTY_FILE" -> f.stat = "zero"
      [] rule = "EMPTY_CONTENT" -> f.content = "blank"
      [] rule = "ENCODING_ERROR" -> f.content = "undecodable"
      [] rule = "FILE_READ_ERROR" -> f.content = "ioerror"

FailingChecks(f) == {i \in 1..Len(CheckOrder) : CheckFails(f, CheckOrder[i])}

FirstFailing(f) == CheckOrder[CHOOSE i \in FailingChecks(f) : \A j \in FailingChecks(f) : i <= j]

\* the call in hand is for a Path whose checks all give an answer (stat() of
\* an existing, readable file does not raise)
PreChecksAnswer ==
    /\ pc = "vt_pre"
    /\ CurrentPath.is_path
    /\ ~(cur.file.exists /\ cur.file.is_file /\ cur.file.readable /\ cur.file.stat = "oserror")

\* C19: validate_template runs its file pre-checks in the order FILE_NOT_FOUND,
\* NOT_A_FILE, PERMISSION_DENIED, EMPTY_FILE, then EMPTY_CONTENT /
\* ENCODING_ERROR / FILE_READ_ERROR. When a check fails, the call returns at
\* once an invalid result with exactly one error, carrying the rule_id of the
\* first failing check, and no warnings; the cfn-lint path is not resolved, the
\* virtual environment is not touched and no cfn-lint process is started. When
\* none fails, no result is returned by the pre-checks.
C19_FirstFailingCheck ==
    [][PreChecksAnswer =>
         IF FailingChecks(cur.file) # {}
         THEN /\ results' = Append(results,
                                   ValidationResult(CurrentPath, FALSE,
                                       <<ValidationError(FirstFailing(cur.file), "error")>>,
                                       <<>>))
              /\ pc' = "va_loop"
              /\ fs' = fs /\ venvOps' = venvOps
              /\ lintRuns' = lintRuns /\ running' = running
              /\ \A i \in 1..Len(stages') :
                     stages'[i] \in {"venv-manager", "linter"} => i <= Len(stages)
         ELSE results' = results /\ pc' = "vt_path"]_vars

\* a call stopped by a check that is not the first in the order, with several
\* checks failing, and nothing of cfn-lint used so far
C19_Witness ==
    /\ pc = "va_loop"
    /\ Len(results) = 1
    /\ results[1].errors = <<ValidationError("PERMISSION_DENIED", "error")>>
    /\ results[1].warnings = <<>>
    /\ ~results[1].is_valid
    /\ lintRuns = 0
    /\ venvOps = {}

-----------------------------------------------------------------------------
(* validate_template: from the end of the cfn-lint process to the result *)

InitCompleted ==
    /\ InitIdle
    /\ \E p \in {v \in PathValues(1) : v.is_path}, c \in Completions :
         call = [fn |-> "validate_template", at |-> "completed", path |-> p, completion |-> c,
                 outcome |-> Raised(p)]

\* lines 294-387: the output of the finished process is parsed and the result built
CompletedReturn ==
    /\ call.fn = "validate_template"
    /\ call.at = "completed"
    /\ call' = [call EXCEPT !.at = "returned",
                            !.outcome = CatchAll(call.path,
                                                 CompletedOutcome(call.path, call.completion))]
    /\ UNCHANGED linterVars

SpecCompleted == InitCompleted /\ [][CompletedReturn]_vars

HasRule(errs, rule) == \E i \in 1..Len(errs) : errs[i].rule_id = rule

\* stdout holds no JSON: it is empty or it is text json.loads rejects
NoJsonOutput(stdout) == stdout.kind \in {"empty", "text"}

\* C20 as stated: whenever cfn-lint exits with a non-zero return code and
\* produces no JSON output on stdout, validate_template returns an invalid
\* result that contains an error with rule_id CFN_LINT_ERROR.
C20_NonZeroNoJson ==
    (/\ call.fn = "validate_template"
     /\ call.at = "returned"
     /\ call.completion.outcome = "exit"
     /\ call.completion.returncode # 0
     /\ NoJsonOutput(call.completion.stdout))
    => /\ ~call.outcome.raised
       /\ ~call.outcome.result.is_valid
       /\ HasRule(call.outcome.result.errors, "CFN_LINT_ERROR")

-----------------------------------------------------------------------------
(* validate_template: the items of cfn-lint's JSON output *)

\* an item as cfn-lint writes it: an object whose Level, if any, is a string
WellFormedItem(it) == it.shape = "object" /\ it.Level # NonString

\* its Level equals 'warning' whatever the case of its letters
IsWarningItem(it) == it.Level \in {"warning", "Warning", "WARNING"}

RuleOf(it) == IF it.Rule = NoRule THEN "Unknown" ELSE it.Rule

RECURSIVE RulesOfItems(_, _)
RulesOfItems(items, warning) ==
    IF items = <<>> THEN <<>>
    ELSE IF IsWarningItem(Head(items)) = warning
    THEN <<RuleOf(Head(items))>> \o RulesOfItems(Tail(items), warning)
    ELSE RulesOfItems(Tail(items), warning)

RuleIds(errs) == [i \in 1..Len(errs) |-> errs[i].rule_id]

\* the process exited and stdout held a JSON list of well-formed items
ParsedList ==
    /\ call.fn = "validate_template"
    /\ call.at = "returned"
    /\ call.completion.outcome = "exit"
    /\ call.completion.stdout.kind = "json_list"
    /\ \A i \in 1..Len(call.completion.stdout.items) :
           WellFormedItem(call.completion.stdout.items[i])

\* C21: each item of cfn-lint's JSON output is recorded in exactly one of the
\* result's errors and warnings lists: in warnings if and only if its Level
\* equals 'warning' case-insensitively, otherwise (any other Level, or no
\* Level) in errors; a template all of whose items are warnings is reported
\* valid.
C21_ItemsByLevel ==
    ParsedList =>
        /\ ~call.outcome.raised
        /\ RuleIds(call.outcome.result.warnings)
             = RulesOfItems(call.completion.stdout.items, TRUE)
        /\ RuleIds(call.outcome.result.errors)
             = RulesOfItems(call.completion.stdout.items, FALSE)
        /\ (\A i \in 1..Len(call.completion.stdout.items) :
               IsWarningItem(call.completion.stdout.items[i]))
             => call.outcome.result.is_valid

\* cfn-lint exited with 2 and two warnings whose Levels differ in case; both
\* are warnings of a valid result
C21_Witness ==
    /\ ParsedList
    /\ call.completion.returncode = 2
    /\ call.completion.stdout.items
         = <<LintItem("W2001", "Warning"), LintItem("W2001", "warning")>>
    /\ Len(call.outcome.result.warnings) = 2
    /\ call.outcome.result.errors = <<>>
    /\ call.outcome.result.is_valid

-----------------------------------------------------------------------------
(* validate_template: the cfn-lint subprocess and its timeout *)

\* seconds the cfn-lint process needs to finish, on either side of each timeout
Durations == {10, 45, 90, 150}

\* what the process writes if it is left to finish
FinishedSamples ==
    {c \in Completions :
        /\ c.outcome = "exit"
        /\ c.stderr = ""
        /\ \/ c.returncode = 0 /\ c.stdout.kind \in {"empty", "text"}
           \/ c.returncode = 2
              /\ c.stdout = Stdout("json_list", <<LintItem("E3001", "Error"),
                                                  LintItem("W2001", "Warning")>>)}

TimeoutExpired == CHOOSE c \in Completions : c.outcome = "timeout"

\* CFNValidator.__init__ has built the EnvironmentManager, whose config is
\* detected from the process once, and the pre-checks have passed
InitLint ==
    /\ InitIdle
    /\ \E e \in Environs, d \in Durations, c \in FinishedSamples :
         call = [fn |-> "subprocess.run", at |-> "path", environ |-> e, needs |-> d,
                 writes |-> c, path |-> [name |-> 1, is_path |-> TRUE], timeout |-> 0,
                 outcome |-> Raised([name |-> 1, is_path |-> TRUE])]

\* lines 249-260: subprocess.run(..., timeout=timeout) starts cfn-lint
LintStart ==
    /\ call.fn = "subprocess.run"
    /\ call.at = "path"
    /\ call' = [call EXCEPT !.at = "running", !.timeout = get_validation_timeout(call.environ)]
    /\ UNCHANGED linterVars

\* lines 294-387: subprocess.run returns, or raises TimeoutExpired when the
\* process is still running after `timeout` seconds
LintEnd ==
    /\ call.fn = "subprocess.run"
    /\ call.at = "running"
    /\ \E c \in {IF call.needs > call.timeout THEN TimeoutExpired ELSE call.writes} :
         call' = [call EXCEPT !.at = "returned",
                              !.outcome = CatchAll(call.path, CompletedOutcome(call.path, c))]
    /\ UNCHANGED linterVars

NextLint == LintStart \/ LintEnd

SpecLint == InitLint /\ [][NextLint]_vars

\* C22: the cfn-lint subprocess is run with a timeout of 120 seconds when the
\* detected execution context is BUILD_PIPELINE, 30 seconds when it is PYTEST
\* and 60 seconds when it is LOCAL; when the subprocess exceeds that timeout,
\* validate_template returns an invalid result with exactly one error of
\* rule_id TIMEOUT_ERROR and no warnings.
C22_TimeoutByContext ==
    (call.fn = "subprocess.run" /\ call.at # "path") =>
        /\ detect_execution_context(call.environ) = "BUILD_PIPELINE" => call.timeout = 120
        /\ detect_execution_context(call.environ) = "PYTEST" => call.timeout = 30
        /\ detect_execution_context(call.environ) = "LOCAL" => call.timeout = 60
        /\ (call.at = "returned" /\ call.needs > call.timeout) =>
              /\ ~call.outcome.raised
              /\ ~call.outcome.result.is_valid
              /\ RuleIds(call.outcome.result.errors) = <<"TIMEOUT_ERROR">>
              /\ call.outcome.result.warnings = <<>>

\* under pytest a run of 45 seconds is cut off, which no other context does
C22_Witness ==
    /\ call.fn = "subprocess.run"
    /\ call.at = "returned"
    /\ detect_execution_context(call.environ) = "PYTEST"
    /\ call.timeout = 30
    /\ call.needs = 45
    /\ RuleIds(call.outcome.result.errors) = <<"TIMEOUT_ERROR">>

====
